---- MODULE Spec2Model ----
(***************************************************************************)
(* livego-client: the Sync Engine (LiveGoComponent over LiveGoClient) and  *)
(* the adapter hook (useLiveGo).                                           *)
(*                                                                         *)
(* JavaScript values are modelled as records.  A JavaScript object with an *)
(* absent property is a record without that field; `undefined` is the     *)
(* record Undefined.  A Set is the sequence of its members in insertion    *)
(* order, which is the order Set.prototype.forEach visits them in.         *)
(***************************************************************************)
EXTENDS Integers, Sequences, FiniteSets, TLC

\* ------------------------------------------------------------------ bounds
NumCallbacks == 3   \* callback identities a caller may register
MaxRequests  == 2   \* update round trips issued in one behaviour
MaxBatch     == 2   \* longest batch(ops) argument
MaxAdds      == 1   \* onUpdate calls made by callbacks within one dispatch
MaxMounts    == 2   \* mount() calls of the adapter hook in one behaviour
NumSubscribers == 2 \* callback identities a caller may register with on()
MaxConnects  == 2   \* EventSource objects a channel creates in one behaviour
MaxRetryConnects == 6 \* EventSource objects of one retry loop: the first and one per reconnect
MaxTimers    == 5   \* reconnect timers a channel sets in one behaviour

\* ------------------------------------------------------------------ values
Undefined == [undefined |-> TRUE]

Callbacks == 1 .. NumCallbacks

Memo == [id |-> "c1", name |-> "Counter"]

\* ComponentSnapshot {state, memo, checksum}; states with different key sets,
\* so that an object merge and a replacement differ.
Snapshots ==
    { [state |-> [a |-> 1, b |-> 1],  memo |-> Memo, checksum |-> "k1"],
      [state |-> [b |-> 0],           memo |-> Memo, checksum |-> "k2"] }

\* Effects {dirty, dispatches, redirects, html}
EffectsValues ==
    { [dirty |-> {"a"}, dispatches |-> <<>>, redirects |-> "null", html |-> "null"],
      [dirty |-> {},    dispatches |-> <<>>, redirects |-> "/next", html |-> "null"] }

\* ErrorResponse {error, message, code} bodies a server may send
ErrorPayloads ==
    { [error |-> "VALIDATION", message |-> "bad input", code |-> 422] }

\* The JSON body of an HTTP response, or Unparseable when response.json() rejects.
Unparseable == [unparseable |-> TRUE]

\* Bodies of a success response to /update: well-formed, or with no snapshot.
UpdateBodies ==
    [snapshot : Snapshots, effects : EffectsValues] \cup [effects : EffectsValues]

\* What fetch() settles with: a rejection (network failure) or a Response.
NetworkFailure == [rejected |-> "TypeError: Failed to fetch"]

HttpResponses(bodies) ==
    [ok : {TRUE}, status : {200}, statusText : {"OK"}, body : bodies \cup {Unparseable}]
        \cup [ok : {FALSE}, status : {422}, statusText : {"Unprocessable"}, body : ErrorPayloads]
        \cup [ok : {FALSE}, status : {500}, statusText : {"Server Error", ""}, body : {Unparseable}]

FetchResults(bodies) == {NetworkFailure} \cup HttpResponses(bodies)

\* batch() intents: {type: 'call', method, params?} | {type: 'set', field, value}
Intents ==
    { [type |-> "call", method |-> "validate"],
      [type |-> "call", method |-> "add", params |-> <<1>>],
      [type |-> "set", field |-> "a", value |-> 1] }

SeqsUpTo(S, n) == UNION { [1 .. k -> S] : k \in 0 .. n }

Range(s) == { s[i] : i \in 1 .. Len(s) }

IndexOf(s, x) == IF x \in Range(s) THEN CHOOSE i \in 1 .. Len(s) : s[i] = x ELSE 0

\* --------------------------------------------------------------- variables
VARIABLES
    snapshot,         \* LiveGoComponent.snapshot
    updateCallbacks,  \* LiveGoComponent.updateCallbacks, in insertion order
    inflight,         \* update requests awaiting their response: [id, snapshot]
    updateCalls,      \* number of update requests the Transport has received
    dActive,          \* notifyUpdate is running (between two callback invocations)
    dReq,             \* the request whose response is being dispatched
    dArgs,            \* the (state, effects) notifyUpdate was called with
    dResponse,        \* history: the response body being dispatched
    dCursor,          \* entries of updateCallbacks the forEach has passed
    dStart,           \* history: updateCallbacks when the dispatch began
    dInvoked,         \* history: callbacks invoked by this dispatch, in order
    dThrew,           \* history: callbacks that threw in this dispatch
    dSelf,            \* history: callbacks that unsubscribed themselves in it
    dForeign,         \* history: callbacks (un)registered in it by other means
    dAdds,            \* history: onUpdate calls made by callbacks in it
    handle,           \* history: per callback, the use of its unsubscribe function
    adopted,          \* history: fulfilled responses in arrival order: [id, checksum]
    ev,               \* history: the operation that produced this state
    adapter,          \* which useLiveGo runs: "react", "vue", or "none"
    livegoRef,        \* useLiveGo livegoRef.current / livego.value: 0 (null) or an instance
    instances,        \* the LiveGoComponent objects the hook's mounts constructed
    unsubscribeRef,   \* useLiveGo unsubscribeRef.current: 0 (null) or the instance it is of
    isMounted,        \* useLiveGo isMounted
    isLoading,        \* useLiveGo isLoading
    error,            \* useLiveGo error
    hookState,        \* useLiveGo state
    effects,          \* useLiveGo effects
    mounts,           \* mount requests awaiting their response
    mountCalls,       \* number of mount requests the Transport has received
    hookInflight,     \* update requests of the hook awaiting their response
    hookUpdateCalls,  \* number of update requests the Transport has received from the hook
    mounted,          \* history: number of mount() calls of the hook that resolved
    options,          \* LiveGoStream.options: [reconnect, onEvent (registered or not)]
    eventSource,      \* LiveGoStream.eventSource: 0 (null) or an EventSource
    sources,          \* readyState of every EventSource the channel created
    reconnectTimeout, \* LiveGoStream.reconnectTimeout: 0 (null) or a timer id
    timers,           \* the timers of window.setTimeout that are pending
    timerSeq,         \* number of window.setTimeout calls made
    listeners,        \* LiveGoStream.listeners: event type -> Set, as present
    reconnectAttempts,\* LiveGoStream.reconnectAttempts
    errs              \* history: error events since the last open event

engineVars == <<snapshot, updateCallbacks, inflight, updateCalls>>
dispatchVars == <<dActive, dReq, dArgs, dResponse, dCursor, dStart, dInvoked, dThrew, dSelf,
                  dForeign, dAdds>>
hookVars == <<adapter, livegoRef, instances, unsubscribeRef, isMounted, isLoading, error,
              hookState, effects, mounts, mountCalls, hookInflight, hookUpdateCalls, mounted>>
chanVars == <<eventSource, sources, reconnectTimeout, timers, timerSeq, listeners,
              reconnectAttempts>>
streamVars == <<options, chanVars, errs>>
vars == <<engineVars, dispatchVars, handle, adopted, ev, hookVars, streamVars>>


\* ------------------------------------------------------- LiveGoClient
\* obj.name for a property that may be absent
Prop(obj, name) == IF name \in DOMAIN obj THEN obj[name] ELSE Undefined

\* LiveGoClient.parseError: the response's JSON body, or a synthesized payload
parseError(response) ==
    IF response.body # Unparseable
    THEN response.body
    ELSE [error   |-> "HTTP_ERROR",
          message |-> IF response.statusText # "" THEN response.statusText
                      ELSE "Unknown error",
          code    |-> response.status]

SyntaxError == [rejected |-> "SyntaxError: Unexpected token"]
TypeError   == [rejected |-> "TypeError: Cannot read properties of undefined"]

\* Mutant of update: response.ok is not looked at
updateAnyStatus(fetched) ==
    IF fetched = NetworkFailure THEN [ok |-> FALSE, error |-> fetched]
    ELSE IF fetched.body = Unparseable THEN [ok |-> FALSE, error |-> SyntaxError]
    ELSE [ok |-> TRUE, value |-> fetched.body]

\* LiveGoClient.update (and mount, which has the same body), applied to what
\* fetch() settled with: [ok |-> TRUE, value] when the promise is fulfilled,
\* [ok |-> FALSE, error] when it is rejected.
update(fetched) ==
    IF fetched = NetworkFailure THEN [ok |-> FALSE, error |-> fetched]
    ELSE IF ~fetched.ok THEN [ok |-> FALSE, error |-> parseError(fetched)]
    ELSE IF fetched.body = Unparseable THEN [ok |-> FALSE, error |-> SyntaxError]
    ELSE [ok |-> TRUE, value |-> fetched.body]

\* ---------------------------------------------------- LiveGoComponent
getSnapshot == snapshot

getState == IF snapshot = Undefined THEN TypeError ELSE snapshot.state

getId == IF snapshot = Undefined THEN TypeError ELSE snapshot.memo.id

\* Set.prototype.add / delete / clear on the insertion-ordered member list
SetAdd(s, x) == IF x \in Range(s) THEN s ELSE Append(s, x)

\* Mutant of SetDelete: an array with splice(indexOf(x), 1), which removes the
\* last member when x is absent
spliceDelete(s, x) ==
    IF x \in Range(s) THEN SelectSeq(s, LAMBDA y : y # x)
    ELSE SubSeq(s, 1, Len(s) - 1)

SetDelete(s, x) == SelectSeq(s, LAMBDA y : y # x)

SetClear(s) == <<>>

\* The updates call(method, ...params) sends
callUpdates(method, params) ==
    << [type |-> "callMethod", payload |-> [method |-> method, params |-> params]] >>

\* The updates set(field, value) sends
setUpdates(field, value) ==
    << [type |-> "syncInput", payload |-> [field |-> field, value |-> value]] >>

\* Mutant of batchUpdates: the deltas are collected in reverse
batchUpdatesReversed(operations) ==
    [i \in 1 .. Len(operations) |->
        LET op == operations[Len(operations) + 1 - i] IN
        IF op.type = "call"
        THEN [type |-> "callMethod",
              payload |-> [method |-> op.method,
                           params |-> IF "params" \in DOMAIN op THEN op.params ELSE <<>>]]
        ELSE [type |-> "syncInput",
              payload |-> [field |-> op.field, value |-> op.value]]]

\* operations.map(...) of batch
batchUpdates(operations) ==
    [ i \in 1 .. Len(operations) |->
        LET op == operations[i] IN
        IF op.type = "call"
        THEN [type |-> "callMethod",
              payload |-> [method |-> op.method,
                           params |-> IF "params" \in DOMAIN op THEN op.params
                                      ELSE <<>>]]
        ELSE [type |-> "syncInput",
              payload |-> [field |-> op.field, value |-> op.value]] ]

\* Mutant of adopt: Object.assign of the new state over the current one
adoptMerged(current, request, response) ==
    IF Prop(response, "snapshot") = Undefined \/ current = Undefined
    THEN Prop(response, "snapshot")
    ELSE [response.snapshot EXCEPT !.state =
            [k \in DOMAIN current.state \cup DOMAIN response.snapshot.state |->
                IF k \in DOMAIN response.snapshot.state
                THEN response.snapshot.state[k] ELSE current.state[k]]]

\* Mutant of adopt: a response to a request sent with another snapshot than
\* the current one is dropped as stale
adoptUnlessStale(current, request, response) ==
    IF request.snapshot = current THEN Prop(response, "snapshot") ELSE current

\* this.snapshot = response.snapshot: the snapshot sendUpdates adopts from the
\* fulfilled response to `request`, whatever the request and the current one are
adopt(current, request, response) == Prop(response, "snapshot")

\* try { callback(state, effects) } catch: whether the forEach goes on after a
\* callback that threw (throws = TRUE) or returned
caught(throws) == TRUE

\* The arguments sendUpdates passes to notifyUpdate
notifyArgs(response) ==
    [state |-> response.snapshot.state, effects |-> Prop(response, "effects")]

\* What a registry operation does to updateCallbacks.  An operation is
\* [kind |-> "onUpdate", cb], [kind |-> "unsubscribe", cb] (the function onUpdate
\* returned for cb), [kind |-> "clearListeners"] or [kind |-> "return"] (none).
registryAfter(reg, o) ==
    CASE o.kind = "onUpdate"       -> SetAdd(reg, o.cb)
      [] o.kind = "unsubscribe"    -> SetDelete(reg, o.cb)
      [] o.kind = "clearListeners" -> SetClear(reg)
      [] OTHER                     -> reg

\* Where the running forEach stands after a registry operation: `passed` members
\* were behind it.  A deleted member leaves the list, so one that was already
\* passed takes its place in the count with it; added members go to the end.
forEachAfter(reg, passed, o) ==
    CASE o.kind = "unsubscribe" ->
            IF IndexOf(reg, o.cb) \in 1 .. passed THEN passed - 1 ELSE passed
      [] o.kind = "clearListeners" -> 0
      [] OTHER -> passed

\* History of each callback's unsubscribe function: "none" (never returned),
\* "issued" (returned, never called), "stale" (called, and cb not registered
\* again since), "again" (called before, and cb registered again since).
\* Every function onUpdate returns for cb does the same delete(cb), so one
\* history per callback stands for all of them.
handleAfter(h, o) ==
    CASE o.kind = "onUpdate" ->
            [h EXCEPT ![o.cb] = IF @ \in {"stale", "again"} THEN "again" ELSE "issued"]
      [] o.kind = "unsubscribe" -> [h EXCEPT ![o.cb] = "stale"]
      [] OTHER -> h

NoDispatch ==
    /\ dActive = FALSE
    /\ dReq = 0
    /\ dArgs = Undefined
    /\ dResponse = Undefined
    /\ dCursor = 0
    /\ dStart = <<>>
    /\ dInvoked = <<>>
    /\ dThrew = {}
    /\ dSelf = {}
    /\ dForeign = {}
    /\ dAdds = 0

\* notifyUpdate is not running afterwards; the histories of the dispatch are dropped.
EndDispatch ==
    /\ dActive' = FALSE
    /\ dReq' = 0
    /\ dArgs' = Undefined
    /\ dResponse' = Undefined
    /\ dCursor' = 0
    /\ dStart' = <<>>
    /\ dInvoked' = <<>>
    /\ dThrew' = {}
    /\ dSelf' = {}
    /\ dForeign' = {}
    /\ dAdds' = 0

\* The snapshot of the mount response the instance was constructed with
MountSnapshot == [state |-> [a |-> 1, b |-> 1], memo |-> Memo, checksum |-> "k1"]

\* JS null
Null == [null |-> TRUE]

\* {}
EmptyObject == [k \in {} |-> k]

\* useLiveGo before its first render
HookIdle ==
    /\ livegoRef = 0
    /\ instances = <<>>
    /\ unsubscribeRef = 0
    /\ isMounted = FALSE
    /\ isLoading = FALSE
    /\ error = Null
    /\ hookState = EmptyObject
    /\ effects = Null
    /\ mounts = {}
    /\ mountCalls = 0
    /\ hookInflight = {}
    /\ hookUpdateCalls = 0
    /\ mounted = 0

\* An empty Map
EmptyMap == [k \in {} |-> k]

\* A LiveGoStream as its field initialisers leave it
ChannelNew ==
    /\ eventSource = 0
    /\ sources = <<>>
    /\ reconnectTimeout = 0
    /\ timers = {}
    /\ timerSeq = 0
    /\ listeners = EmptyMap
    /\ reconnectAttempts = 0
    /\ errs = 0

\* No LiveGoStream in use
StreamIdle ==
    /\ options = [reconnect |-> TRUE, onEvent |-> FALSE]
    /\ ChannelNew

\* The instance LiveGoComponent.mount returns for a mount response's snapshot,
\* used without an adapter hook
Init ==
    /\ adapter = "none"
    /\ HookIdle
    /\ StreamIdle
    /\ snapshot = MountSnapshot
    /\ updateCallbacks = <<>>
    /\ inflight = {}
    /\ updateCalls = 0
    /\ NoDispatch
    /\ handle = [c \in Callbacks |-> "none"]
    /\ adopted = <<>>
    /\ ev = [op |-> "mount"]

\* Mutant of sendUpdates: the request carries the snapshot of the mount response
sendUpdatesMountBase(op, args, updates) ==
    /\ ~dActive
    /\ updateCalls < MaxRequests
    /\ updateCalls' = updateCalls + 1
    /\ inflight' = inflight \cup {[id |-> updateCalls + 1, snapshot |-> MountSnapshot]}
    /\ ev' = [op |-> op, args |-> args,
              sent |-> << [id |-> updateCalls + 1, snapshot |-> MountSnapshot,
                           updates |-> updates] >>]
    /\ UNCHANGED <<hookVars, streamVars>>
    /\ UNCHANGED <<snapshot, updateCallbacks, dispatchVars, handle, adopted>>

\* sendUpdates up to its await: one update request leaves with the current
\* snapshot and the given updates.
sendUpdates(op, args, updates) ==
    /\ ~dActive
    /\ updateCalls < MaxRequests
    /\ updateCalls' = updateCalls + 1
    /\ inflight' = inflight \cup {[id |-> updateCalls + 1, snapshot |-> snapshot]}
    /\ ev' = [op |-> op, args |-> args,
              sent |-> << [id |-> updateCalls + 1, snapshot |-> snapshot,
                           updates |-> updates] >>]
    /\ UNCHANGED <<hookVars, streamVars>>
    /\ UNCHANGED <<snapshot, updateCallbacks, dispatchVars, handle, adopted>>

call(method, params) ==
    sendUpdates("call", [method |-> method, params |-> params],
                callUpdates(method, params))

set(field, value) ==
    sendUpdates("set", [field |-> field, value |-> value], setUpdates(field, value))

batch(operations) ==
    sendUpdates("batch", [operations |-> operations], batchUpdates(operations))

\* sendUpdates after its await, the request rejected: the error goes to the caller.
UpdateRejected(r, fetched) ==
    /\ ~dActive
    /\ r \in inflight
    /\ ~update(fetched).ok
    /\ inflight' = inflight \ {r}
    /\ ev' = [op |-> "rejected", req |-> r.id, error |-> update(fetched).error,
              fetched |-> fetched]
    /\ UNCHANGED <<hookVars, streamVars>>
    /\ UNCHANGED <<snapshot, updateCallbacks, updateCalls, dispatchVars, handle,
                   adopted>>

\* sendUpdates after its await, the request fulfilled with a body that has no
\* snapshot: the assignment is made, then response.snapshot.state throws.
UpdateMalformed(r, fetched) ==
    /\ ~dActive
    /\ r \in inflight
    /\ update(fetched).ok
    /\ Prop(update(fetched).value, "snapshot") = Undefined
    /\ inflight' = inflight \ {r}
    /\ snapshot' = adopt(snapshot, r, update(fetched).value)
    /\ ev' = [op |-> "rejected", req |-> r.id, error |-> TypeError,
              fetched |-> fetched]
    /\ UNCHANGED <<hookVars, streamVars>>
    /\ UNCHANGED <<updateCallbacks, updateCalls, dispatchVars, handle, adopted>>

\* sendUpdates after its await, the request fulfilled: the snapshot is replaced
\* and notifyUpdate starts its forEach.
UpdateFulfilled(r, fetched) ==
    /\ ~dActive
    /\ r \in inflight
    /\ update(fetched).ok
    /\ Prop(update(fetched).value, "snapshot") # Undefined
    /\ inflight' = inflight \ {r}
    /\ snapshot' = adopt(snapshot, r, update(fetched).value)
    /\ adopted' = Append(adopted, [id |-> r.id,
                                   checksum |-> update(fetched).value.snapshot.checksum])
    /\ dActive' = TRUE
    /\ dReq' = r.id
    /\ dArgs' = notifyArgs(update(fetched).value)
    /\ dResponse' = update(fetched).value
    /\ dCursor' = 0
    /\ dStart' = updateCallbacks
    /\ dInvoked' = <<>>
    /\ dThrew' = {}
    /\ dSelf' = {}
    /\ dForeign' = {}
    /\ dAdds' = 0
    /\ ev' = [op |-> "applied", req |-> r.id, response |-> update(fetched).value]
    /\ UNCHANGED <<hookVars, streamVars>>
    /\ UNCHANGED <<updateCallbacks, updateCalls, handle>>


\* onUpdate(callback), called outside a dispatch
onUpdate(cb) ==
    LET o == [kind |-> "onUpdate", cb |-> cb] IN
    /\ ~dActive
    /\ updateCallbacks' = registryAfter(updateCallbacks, o)
    /\ handle' = handleAfter(handle, o)
    /\ ev' = [op |-> "onUpdate", cb |-> cb]
    /\ UNCHANGED <<hookVars, streamVars>>
    /\ UNCHANGED <<snapshot, inflight, updateCalls, dispatchVars, adopted>>

\* The function onUpdate(cb) returned, called outside a dispatch
unsubscribe(cb) ==
    LET o == [kind |-> "unsubscribe", cb |-> cb] IN
    /\ ~dActive
    /\ handle[cb] # "none"
    /\ updateCallbacks' = registryAfter(updateCallbacks, o)
    /\ handle' = handleAfter(handle, o)
    /\ ev' = [op |-> "unsubscribe", cb |-> cb, was |-> handle[cb]]
    /\ UNCHANGED <<hookVars, streamVars>>
    /\ UNCHANGED <<snapshot, inflight, updateCalls, dispatchVars, adopted>>

\* clearListeners(), called outside a dispatch
clearListeners ==
    LET o == [kind |-> "clearListeners"] IN
    /\ ~dActive
    /\ updateCallbacks' = registryAfter(updateCallbacks, o)
    /\ ev' = [op |-> "clearListeners"]
    /\ UNCHANGED <<hookVars, streamVars>>
    /\ UNCHANGED <<snapshot, inflight, updateCalls, dispatchVars, handle, adopted>>

\* What a callback may do while it runs: nothing, or one registry operation.
Behaviours ==
    {[kind |-> "return"], [kind |-> "clearListeners"]}
        \cup {[kind |-> "unsubscribe", cb |-> c] : c \in {x \in Callbacks : handle[x] # "none"}}
        \cup {[kind |-> "onUpdate", cb |-> c] : c \in {x \in Callbacks : dAdds < MaxAdds}}

\* notifyUpdate: the forEach reaches the next member and calls it inside
\* try/catch; the callback does `o` and then returns or throws.  An exception
\* that is not caught leaves notifyUpdate and sendUpdates: the call rejects.
notifyUpdate(o, throws) ==
    /\ dActive
    /\ dCursor < Len(updateCallbacks)
    /\ o \in Behaviours
    /\ LET cb == updateCallbacks[dCursor + 1] IN
        /\ updateCallbacks' = registryAfter(updateCallbacks, o)
        /\ handle' = handleAfter(handle, o)
        /\ IF caught(throws)
           THEN /\ dCursor' = forEachAfter(updateCallbacks, dCursor + 1, o)
                /\ dInvoked' = Append(dInvoked, cb)
                /\ dThrew' = IF throws THEN dThrew \cup {cb} ELSE dThrew
                /\ dSelf' = IF o.kind = "unsubscribe" /\ o.cb = cb
                            THEN dSelf \cup {cb} ELSE dSelf
                /\ dForeign' =
                     CASE o.kind = "unsubscribe" /\ o.cb # cb ->
                              dForeign \cup ({o.cb} \cap Range(updateCallbacks))
                       [] o.kind = "onUpdate" ->
                              dForeign \cup ({o.cb} \ Range(updateCallbacks))
                       [] o.kind = "clearListeners" ->
                              dForeign \cup Range(updateCallbacks)
                       [] OTHER -> dForeign
                /\ dAdds' = IF o.kind = "onUpdate" THEN dAdds + 1 ELSE dAdds
                /\ ev' = [op |-> "invoke", cb |-> cb, state |-> dArgs.state,
                          effects |-> dArgs.effects, threw |-> throws,
                          did |-> o]
                /\ UNCHANGED <<dActive, dReq, dArgs, dResponse, dStart>>
           ELSE /\ EndDispatch
                /\ ev' = [op |-> "rejected", req |-> dReq, error |-> "callback"]
    /\ UNCHANGED <<hookVars, streamVars>>
    /\ UNCHANGED <<snapshot, inflight, updateCalls, adopted>>

\* notifyUpdate returns: the forEach has no member left; sendUpdates returns and
\* the promise of the triggering call/set/batch resolves.
Resolved ==
    /\ dActive
    /\ dCursor >= Len(updateCallbacks)
    /\ EndDispatch
    /\ ev' = [op |-> "resolved", req |-> dReq, response |-> dResponse]
    /\ UNCHANGED <<hookVars, streamVars>>
    /\ UNCHANGED <<snapshot, updateCallbacks, inflight, updateCalls, handle, adopted>>

Next ==
    \/ \E p \in {<<>>, <<1, 2>>} : call("add", p)
    \/ \E v \in {1, 2} : set("a", v)
    \/ \E ops \in SeqsUpTo(Intents, MaxBatch) : batch(ops)
    \/ \E r \in inflight, f \in FetchResults(UpdateBodies) : UpdateRejected(r, f)
    \/ \E r \in inflight, f \in FetchResults(UpdateBodies) : UpdateMalformed(r, f)
    \/ \E r \in inflight, f \in FetchResults(UpdateBodies) : UpdateFulfilled(r, f)
    \/ \E o \in Behaviours, t \in BOOLEAN : notifyUpdate(o, t)
    \/ Resolved
    \/ \E cb \in Callbacks : onUpdate(cb)
    \/ \E cb \in Callbacks : unsubscribe(cb)
    \/ clearListeners

Spec == Init /\ [][Next]_vars


\* ------------------------------------------------- useLiveGo (adapter hook)
\* Bodies of a 200 mount response: a MountResponse, or a JSON object without
\* a snapshot
MountBodies == [snapshot : Snapshots] \cup { [component |-> "Counter"] }

\* new Error('LiveGo component not mounted')
NotMountedError == [rejected |-> "Error: LiveGo component not mounted"]

\* Mutant of mount: response.ok is not looked at
mountAnyStatus(fetched) ==
    IF fetched = NetworkFailure THEN [ok |-> FALSE, error |-> fetched]
    ELSE IF fetched.body = Unparseable THEN [ok |-> FALSE, error |-> SyntaxError]
    ELSE [ok |-> TRUE, value |-> fetched.body]

\* LiveGoClient.mount on a settled fetch: the promise it returns
mount(fetched) ==
    IF fetched = NetworkFailure THEN [ok |-> FALSE, error |-> fetched]
    ELSE IF ~fetched.ok THEN [ok |-> FALSE, error |-> parseError(fetched)]
    ELSE IF fetched.body = Unparseable THEN [ok |-> FALSE, error |-> SyntaxError]
    ELSE [ok |-> TRUE, value |-> fetched.body]

\* LiveGoComponent.mount after client.mount settled: a rejection, or
\* new LiveGoComponent(response.snapshot, options) with no listener
LiveGoComponent_mount(fetched) ==
    IF ~mount(fetched).ok THEN mount(fetched)
    ELSE [ok |-> TRUE,
          instance |-> [snapshot |-> Prop(mount(fetched).value, "snapshot"),
                        subscribed |-> FALSE]]

\* Object.assign(target, source)
ObjectAssign(target, source) ==
    [k \in DOMAIN target \cup DOMAIN source |->
        IF k \in DOMAIN source THEN source[k] ELSE target[k]]

\* if (!livegoRef.current) / if (!livego.value)
notMounted(ref) == ref = 0

\* getSnapshot() of the hook: livegoRef.current?.getSnapshot()
useLiveGo_getSnapshot ==
    IF livegoRef = 0 THEN Undefined ELSE instances[livegoRef].snapshot

\* getId() of the hook: livegoRef.current?.getId()
useLiveGo_getId ==
    IF livegoRef = 0 THEN Undefined
    ELSE IF instances[livegoRef].snapshot = Undefined THEN TypeError
    ELSE instances[livegoRef].snapshot.memo.id

\* instance.onUpdate's unsubscribe and instance.clearListeners on the hook's
\* instances: the hook's callback leaves the listeners of those in S
Unlisten(insts, S) ==
    [i \in 1 .. Len(insts) |->
        IF i \in S THEN [insts[i] EXCEPT !.subscribed = FALSE] ELSE insts[i]]

HookInit ==
    /\ adapter \in {"react", "vue"}
    /\ HookIdle
    /\ StreamIdle
    /\ snapshot = Undefined
    /\ updateCallbacks = <<>>
    /\ inflight = {}
    /\ updateCalls = 0
    /\ NoDispatch
    /\ handle = [c \in Callbacks |-> "none"]
    /\ adopted = <<>>
    /\ ev = [op |-> "render"]

\* mount() / remount() of the hook up to its await
useLiveGo_mount ==
    /\ mountCalls < MaxMounts
    /\ instances' = Unlisten(instances, {unsubscribeRef})
    /\ unsubscribeRef' = 0
    /\ isLoading' = TRUE
    /\ error' = Null
    /\ isMounted' = FALSE
    /\ mountCalls' = mountCalls + 1
    /\ mounts' = mounts \cup {mountCalls + 1}
    /\ ev' = [op |-> "mount", req |-> mountCalls + 1]
    /\ UNCHANGED <<adapter, livegoRef, hookState, effects, hookInflight, hookUpdateCalls,
                   mounted>>
    /\ UNCHANGED <<engineVars, dispatchVars, handle, adopted, streamVars>>

\* mount() of the hook from the settling of LiveGoComponent.mount to its end
MountSettled(m, fetched) ==
    LET res == LiveGoComponent_mount(fetched)
        idx == Len(instances) + 1
    IN
    /\ m \in mounts
    /\ mounts' = mounts \ {m}
    /\ isLoading' = FALSE
    /\ IF ~res.ok
       THEN /\ error' = res.error
            /\ ev' = [op |-> "mountFailed", req |-> m, error |-> res.error,
                      fetched |-> fetched]
            /\ UNCHANGED <<livegoRef, instances, hookState, isMounted, unsubscribeRef,
                           mounted>>
       ELSE /\ livegoRef' = idx
            /\ IF res.instance.snapshot = Undefined
               THEN /\ instances' = Append(instances, res.instance)
                    /\ error' = TypeError
                    /\ ev' = [op |-> "mountFailed", req |-> m, error |-> TypeError,
                              fetched |-> fetched]
                    /\ UNCHANGED <<hookState, isMounted, unsubscribeRef, mounted>>
               ELSE /\ instances' =
                          Append(instances, [res.instance EXCEPT !.subscribed = TRUE])
                    /\ hookState' = IF adapter = "vue"
                                    THEN ObjectAssign(hookState, res.instance.snapshot.state)
                                    ELSE res.instance.snapshot.state
                    /\ isMounted' = TRUE
                    /\ unsubscribeRef' = idx
                    /\ mounted' = mounted + 1
                    /\ ev' = [op |-> "mounted", req |-> m, fetched |-> fetched]
                    /\ UNCHANGED error
    /\ UNCHANGED <<adapter, effects, mountCalls, hookInflight, hookUpdateCalls>>
    /\ UNCHANGED <<engineVars, dispatchVars, handle, adopted, streamVars>>

\* call / set / batch of the hook up to the await of the instance's call
useLiveGo_send(op, args, updates) ==
    /\ IF notMounted(livegoRef)
       THEN /\ error' = NotMountedError
            /\ ev' = [op |-> op, args |-> args, outcome |-> NotMountedError]
            /\ UNCHANGED <<hookInflight, hookUpdateCalls>>
       ELSE /\ hookUpdateCalls < MaxRequests
            /\ error' = Null
            /\ hookUpdateCalls' = hookUpdateCalls + 1
            /\ hookInflight' = hookInflight \cup
                   { [id |-> hookUpdateCalls + 1, inst |-> livegoRef,
                      snapshot |-> instances[livegoRef].snapshot] }
            /\ ev' = [op |-> op, args |-> args,
                      outcome |-> [request |-> hookUpdateCalls + 1, updates |-> updates]]
    /\ UNCHANGED <<adapter, livegoRef, instances, unsubscribeRef, isMounted, isLoading,
                   hookState, effects, mounts, mountCalls, mounted>>
    /\ UNCHANGED <<engineVars, dispatchVars, handle, adopted, streamVars>>

useLiveGo_call(method, params) ==
    useLiveGo_send("call", [method |-> method, params |-> params],
                   callUpdates(method, params))

useLiveGo_set(field, value) ==
    useLiveGo_send("set", [field |-> field, value |-> value], setUpdates(field, value))

useLiveGo_batch(operations) ==
    useLiveGo_send("batch", [operations |-> operations], batchUpdates(operations))

\* call / set / batch of the hook from the settling of the update request to
\* its end: sendUpdates of the instance, its notifyUpdate, the hook's catch
UpdateSettled(r, fetched) ==
    LET res  == update(fetched)
        inst == instances[r.inst]
    IN
    /\ r \in hookInflight
    /\ hookInflight' = hookInflight \ {r}
    /\ IF ~res.ok
       THEN /\ error' = res.error
            /\ ev' = [op |-> "updateFailed", req |-> r.id, error |-> res.error]
            /\ UNCHANGED <<instances, hookState, effects>>
       ELSE /\ instances' = [instances EXCEPT
                                ![r.inst].snapshot = adopt(inst.snapshot, r, res.value)]
            /\ IF Prop(res.value, "snapshot") = Undefined
               THEN /\ error' = TypeError
                    /\ ev' = [op |-> "updateFailed", req |-> r.id, error |-> TypeError]
                    /\ UNCHANGED <<hookState, effects>>
               ELSE /\ IF inst.subscribed
                       THEN /\ hookState' = notifyArgs(res.value).state
                            /\ effects' = notifyArgs(res.value).effects
                       ELSE UNCHANGED <<hookState, effects>>
                    /\ ev' = [op |-> "updated", req |-> r.id]
                    /\ UNCHANGED error
    /\ UNCHANGED <<adapter, livegoRef, unsubscribeRef, isMounted, isLoading, mounts,
                   mountCalls, hookUpdateCalls, mounted>>
    /\ UNCHANGED <<engineVars, dispatchVars, handle, adopted, streamVars>>

\* The cleanup of the hook when its host component unmounts
Cleanup ==
    /\ instances' = Unlisten(instances, {unsubscribeRef, livegoRef})
    /\ ev' = [op |-> "cleanup"]
    /\ UNCHANGED <<adapter, livegoRef, unsubscribeRef, isMounted, isLoading, error,
                   hookState, effects, mounts, mountCalls, hookInflight, hookUpdateCalls,
                   mounted>>
    /\ UNCHANGED <<engineVars, dispatchVars, handle, adopted, streamVars>>

HookNext ==
    \/ useLiveGo_mount
    \/ \E m \in mounts, f \in FetchResults(MountBodies) : MountSettled(m, f)
    \/ \E p \in {<<>>, <<1, 2>>} : useLiveGo_call("add", p)
    \/ \E v \in {1, 2} : useLiveGo_set("a", v)
    \/ \E ops \in SeqsUpTo(Intents, MaxBatch) : useLiveGo_batch(ops)
    \/ \E r \in hookInflight, f \in FetchResults(UpdateBodies) : UpdateSettled(r, f)
    \/ Cleanup

HookSpec == HookInit /\ [][HookNext]_vars


\* ------------------------------------------------------------ LiveGoStream
\* Callbacks a caller registers with on()
Subscribers == 1 .. NumSubscribers

\* this.maxReconnectAttempts
maxReconnectAttempts == 5

\* The default of options.reconnectInterval, in milliseconds
reconnectInterval == 1000

\* Mutant of eventTypes: a listener is attached for the type "custom" as well
eventTypesAndCustom ==
    {"connected", "text-chunk", "progress", "notification",
     "generation-complete", "upload-complete", "custom"}

\* The event types setupEventListeners attaches a listener for
eventTypes == {"connected", "text-chunk", "progress", "notification",
               "generation-complete", "upload-complete"}

\* The event types a caller subscribes to
SubscribedTypes == {"progress", "custom"}

RECURSIVE pow2(_)
\* Math.pow(2, n)
pow2(n) == IF n <= 0 THEN 1 ELSE 2 * pow2(n - 1)

\* Map.prototype.get, undefined as the empty sequence's absence
MapHas(m, k) == k \in DOMAIN m

MapSet(m, k, v) == [x \in DOMAIN m \cup {k} |-> IF x = k THEN v ELSE m[x]]

MapDelete(m, k) == [x \in DOMAIN m \ {k} |-> m[x]]

\* The fields of the LiveGoStream and the timer table, with the lifecycle
\* callbacks invoked and the delays passed to setTimeout by the running operation
Chan ==
    [eventSource |-> eventSource, sources |-> sources,
     reconnectTimeout |-> reconnectTimeout, timers |-> timers, timerSeq |-> timerSeq,
     listeners |-> listeners, reconnectAttempts |-> reconnectAttempts,
     calls |-> <<>>, delays |-> <<>>]

\* The operation leaves the LiveGoStream and the timer table as c
Becomes(c) ==
    /\ eventSource' = c.eventSource
    /\ sources' = c.sources
    /\ reconnectTimeout' = c.reconnectTimeout
    /\ timers' = c.timers
    /\ timerSeq' = c.timerSeq
    /\ listeners' = c.listeners
    /\ reconnectAttempts' = c.reconnectAttempts

\* Mutant of disconnect: the disconnect callback is invoked whether or not a
\* handle existed
disconnectAlwaysNotifies(c) ==
    LET c1 == IF c.reconnectTimeout # 0
              THEN [c EXCEPT !.timers = @ \ {c.reconnectTimeout}, !.reconnectTimeout = 0]
              ELSE c
        c2 == IF c1.eventSource # 0
              THEN [c1 EXCEPT !.sources[c1.eventSource] = "closed", !.eventSource = 0]
              ELSE c1
    IN [c2 EXCEPT !.listeners = EmptyMap, !.calls = Append(@, "onDisconnect")]

\* Mutant of disconnect: the attempt counter is reset
disconnectResetsAttempts(c) ==
    LET c1 == IF c.reconnectTimeout # 0
              THEN [c EXCEPT !.timers = @ \ {c.reconnectTimeout}, !.reconnectTimeout = 0]
              ELSE c
        c2 == IF c1.eventSource # 0
              THEN [c1 EXCEPT !.sources[c1.eventSource] = "closed",
                              !.eventSource = 0,
                              !.calls = Append(@, "onDisconnect")]
              ELSE c1
    IN [c2 EXCEPT !.listeners = EmptyMap, !.reconnectAttempts = 0]

\* disconnect()
disconnect(c) ==
    LET c1 == IF c.reconnectTimeout # 0
              THEN [c EXCEPT !.timers = @ \ {c.reconnectTimeout}, !.reconnectTimeout = 0]
              ELSE c
        c2 == IF c1.eventSource # 0
              THEN [c1 EXCEPT !.sources[c1.eventSource] = "closed",
                              !.eventSource = 0,
                              !.calls = Append(@, "onDisconnect")]
              ELSE c1
    IN [c2 EXCEPT !.listeners = EmptyMap]

\* Mutant of connect: without the early return
connectAgain(c) ==
    [c EXCEPT !.sources = Append(@, "connecting"),
              !.eventSource = Len(c.sources) + 1]

\* connect(): the handle starts in Connecting
connect(c) ==
    IF c.eventSource # 0 THEN c
    ELSE [c EXCEPT !.sources = Append(@, "connecting"),
                   !.eventSource = Len(c.sources) + 1]

\* The delay of the reconnect scheduled when the counter has become n
reconnectDelay(n) == reconnectInterval * pow2(n - 1)

\* Mutant of onopen: the attempt counter is left as it is
onopenKeepsAttempts(c) ==
    [c EXCEPT !.calls = Append(@, "onConnect")]

\* eventSource.onopen
onopen(c) ==
    [c EXCEPT !.reconnectAttempts = 0, !.calls = Append(@, "onConnect")]

\* Mutant of onerror: without the test of the budget
onerrorNeverGivesUp(c, onError) ==
    LET c1 == [c EXCEPT !.calls = Append(@, "onError")]
        c2 == IF onError = "disconnect" THEN disconnect(c1) ELSE c1
    IN IF options.reconnect
       THEN [c2 EXCEPT !.reconnectAttempts = @ + 1,
                       !.timerSeq = @ + 1,
                       !.timers = @ \cup {c2.timerSeq + 1},
                       !.reconnectTimeout = c2.timerSeq + 1,
                       !.delays = Append(@, reconnectDelay(c2.reconnectAttempts + 1))]
       ELSE disconnect(c2)

\* eventSource.onerror, where the caller's onError callback returns or calls
\* disconnect()
onerror(c, onError) ==
    LET c1 == [c EXCEPT !.calls = Append(@, "onError")]
        c2 == IF onError = "disconnect" THEN disconnect(c1) ELSE c1
    IN IF options.reconnect /\ c2.reconnectAttempts < maxReconnectAttempts
       THEN [c2 EXCEPT !.reconnectAttempts = @ + 1,
                       !.timerSeq = @ + 1,
                       !.timers = @ \cup {c2.timerSeq + 1},
                       !.reconnectTimeout = c2.timerSeq + 1,
                       !.delays = Append(@, reconnectDelay(c2.reconnectAttempts + 1))]
       ELSE disconnect(c2)

\* Mutant of reconnectCallback: the registry survives the teardown
reconnectKeepsListeners(c) ==
    connect([disconnect(c) EXCEPT !.listeners = c.listeners])

\* The callback handed to setTimeout in onerror
reconnectCallback(c) == connect(disconnect(c))

\* new LiveGoStream(url, options), the options given by the caller
StreamInit ==
    /\ adapter = "none"
    /\ HookIdle
    /\ snapshot = Undefined
    /\ updateCallbacks = <<>>
    /\ inflight = {}
    /\ updateCalls = 0
    /\ NoDispatch
    /\ handle = [c \in Callbacks |-> "none"]
    /\ adopted = <<>>
    /\ options \in [reconnect : BOOLEAN, onEvent : BOOLEAN]
    /\ ChannelNew
    /\ ev = [op |-> "new"]

StreamUnchanged ==
    UNCHANGED <<engineVars, dispatchVars, handle, adopted, hookVars, options>>

\* A call of connect() by the caller
Connect ==
    /\ eventSource = 0 => Len(sources) < MaxConnects
    /\ Becomes(connect(Chan))
    /\ ev' = [op |-> "connect", had |-> eventSource # 0]
    /\ UNCHANGED errs
    /\ StreamUnchanged

\* A call of disconnect() by the caller
Disconnect ==
    LET c == disconnect(Chan) IN
    /\ Becomes(c)
    /\ ev' = [op |-> "disconnect", had |-> eventSource # 0, calls |-> c.calls,
              types |-> DOMAIN listeners]
    /\ UNCHANGED errs
    /\ StreamUnchanged

\* The open event of the current handle
OpenEvent ==
    /\ eventSource # 0
    /\ sources[eventSource] = "connecting"
    /\ LET c == onopen([Chan EXCEPT !.sources[eventSource] = "open"]) IN
       /\ Becomes(c)
       /\ ev' = [op |-> "open", calls |-> c.calls]
    /\ errs' = 0
    /\ StreamUnchanged

\* An error event of the current handle: the browser has closed the connection
\* for good (fatal) or is reconnecting by itself
ErrorEvent(fatal, onError) ==
    /\ eventSource # 0
    /\ sources[eventSource] # "closed"
    /\ (options.reconnect /\ reconnectAttempts < maxReconnectAttempts)
          => timerSeq < MaxTimers
    /\ LET c == onerror([Chan EXCEPT !.sources[eventSource] =
                                      IF fatal THEN "closed" ELSE "connecting"],
                        onError) IN
       /\ Becomes(c)
       /\ ev' = [op |-> "error", consecutive |-> errs + 1, onError |-> onError,
                 calls |-> c.calls, delays |-> c.delays]
    /\ errs' = errs + 1
    /\ StreamUnchanged

\* A pending timer expires and runs the reconnect callback, the channel having
\* created fewer than maxSources EventSource objects
TimerFiresWithin(t, maxSources) ==
    /\ t \in timers
    /\ Len(sources) < maxSources
    /\ LET c == reconnectCallback([Chan EXCEPT !.timers = @ \ {t}]) IN
       /\ Becomes(c)
       /\ ev' = [op |-> "timer", timer |-> t, calls |-> c.calls,
                 types |-> DOMAIN listeners]
    /\ UNCHANGED errs
    /\ StreamUnchanged

\* A pending timer expires and runs the reconnect callback
TimerFires(t) == TimerFiresWithin(t, MaxConnects)

\* on(event, callback)
on(event, callback) ==
    /\ listeners' = MapSet(listeners, event,
                           SetAdd(IF MapHas(listeners, event) THEN listeners[event]
                                  ELSE <<>>, callback))
    /\ ev' = [op |-> "on", event |-> event, cb |-> callback]
    /\ UNCHANGED <<eventSource, sources, reconnectTimeout, timers, timerSeq,
                   reconnectAttempts, errs>>
    /\ StreamUnchanged

\* What the function on(event, callback) returned does to the registry
unsubscribed(m, event, callback) ==
    IF MapHas(m, event)
    THEN LET s == SetDelete(m[event], callback) IN
         IF Len(s) = 0 THEN MapDelete(m, event) ELSE MapSet(m, event, s)
    ELSE m

\* A call of the function on(event, callback) returned. The model keeps no
\* record of the functions returned: the closure's body is run for any event
\* and callback, and only while the Map has a Set for the event, since the
\* closure does nothing otherwise.
on_unsubscribe(event, callback) ==
    /\ MapHas(listeners, event)
    /\ listeners' = unsubscribed(listeners, event, callback)
    /\ ev' = [op |-> "on_unsubscribe", event |-> event, cb |-> callback]
    /\ UNCHANGED <<eventSource, sources, reconnectTimeout, timers, timerSeq,
                   reconnectAttempts, errs>>
    /\ StreamUnchanged

\* Mutant of offed: off(event) clears the Map
offedClearsAll(m, event, rest) ==
    IF Len(rest) > 0
    THEN IF MapHas(m, event) THEN MapSet(m, event, SetDelete(m[event], rest[1])) ELSE m
    ELSE EmptyMap

\* What off(event, ...rest) does to the registry: rest is <<callback>> or <<>>
offed(m, event, rest) ==
    IF Len(rest) > 0
    THEN IF MapHas(m, event) THEN MapSet(m, event, SetDelete(m[event], rest[1])) ELSE m
    ELSE MapDelete(m, event)

\* off(event, callback) and off(event)
off(event, rest) ==
    /\ listeners' = offed(listeners, event, rest)
    /\ ev' = [op |-> "off", event |-> event, rest |-> rest]
    /\ UNCHANGED <<eventSource, sources, reconnectTimeout, timers, timerSeq,
                   reconnectAttempts, errs>>
    /\ StreamUnchanged

\* Frame data that is no JSON text
NotJson == "{\"n\":"

\* The data of the frames the server sends: JSON text or not
FrameData == {"{\"n\":1}", NotJson}

\* Mutant of JSON.parse: text that is not JSON is handed on as a string
JSONparseLenient(text) ==
    IF text = "{\"n\":1}" THEN [ok |-> TRUE, value |-> [n |-> 1]]
    ELSE [ok |-> TRUE, value |-> [text |-> text]]

\* JSON.parse
JSONparse(text) ==
    IF text = "{\"n\":1}" THEN [ok |-> TRUE, value |-> [n |-> 1]]
    ELSE [ok |-> FALSE, value |-> SyntaxError]

\* The frames of the channel: the event field names the type, "" without one
Frames == [event : {"", "progress", "custom"}, data : FrameData, lastEventId : {"7"}]

\* What a subscriber does when invoked
SubscriberBehaviours ==
    {[kind |-> k] : k \in {"return", "throw", "unsubscribe", "disconnect"}}
      \cup {[kind |-> "off", cb |-> c] : c \in Subscribers}

\* What the global handler options.onEvent does when invoked
HandlerBehaviours == {"return", "throw", "disconnect"}

RECURSIVE forEachListener(_, _, _)
\* listeners.forEach((callback) => callback(streamEvent.data)) over the live Set
\* st.live of the type, from the st.cursor members already passed; the Map
\* holds that Set as long as it has the key
forEachListener(st, streamEvent, beh) ==
    IF st.cursor >= Len(st.live) THEN st
    ELSE LET cb == st.live[st.cursor + 1]
             b == beh[cb]
             held == MapHas(st.c.listeners, streamEvent.event)
             st1 == [st EXCEPT !.log = Append(@, [fn |-> "subscriber", cb |-> cb,
                                                  arg |-> streamEvent.data,
                                                  did |-> b.kind]),
                               !.cursor = @ + 1]
         IN CASE b.kind = "throw" -> [st1 EXCEPT !.threw = TRUE]
              [] b.kind = "unsubscribe" /\ held ->
                    forEachListener(
                        [st1 EXCEPT !.c.listeners = unsubscribed(@, streamEvent.event, cb),
                                    !.live = SetDelete(@, cb),
                                    !.cursor = @ - 1], streamEvent, beh)
              [] b.kind = "off" /\ held ->
                    forEachListener(
                        [st1 EXCEPT !.c.listeners = offed(@, streamEvent.event, <<b.cb>>),
                                    !.live = SetDelete(@, b.cb),
                                    !.cursor = forEachAfter(st.live, st1.cursor,
                                                   [kind |-> "unsubscribe", cb |-> b.cb])],
                        streamEvent, beh)
              [] b.kind = "disconnect" ->
                    forEachListener([st1 EXCEPT !.c = disconnect(@)], streamEvent, beh)
              [] OTHER -> forEachListener(st1, streamEvent, beh)

\* handleMessage(event, eventType): the channel, the invocations in order and
\* whether the catch clause ran
handleMessage(c, frame, eventType, handler, beh) ==
    LET data == JSONparse(frame.data)
        streamEvent == [event |-> IF eventType # "" THEN eventType ELSE "message",
                        data |-> data.value, id |-> frame.lastEventId]
        st0 == [c |-> c, live |-> <<>>, cursor |-> 0, log |-> <<>>, threw |-> FALSE]
        st1 == IF options.onEvent
               THEN [st0 EXCEPT !.log = Append(@, [fn |-> "onEvent", cb |-> 0,
                                                   arg |-> streamEvent,
                                                   did |-> handler]),
                                !.threw = (handler = "throw"),
                                !.c = IF handler = "disconnect" THEN disconnect(@) ELSE @]
               ELSE st0
    IN IF ~data.ok THEN [st0 EXCEPT !.threw = TRUE]
       ELSE IF st1.threw THEN st1
       ELSE IF MapHas(st1.c.listeners, streamEvent.event)
       THEN forEachListener([st1 EXCEPT !.live = st1.c.listeners[streamEvent.event]],
                            streamEvent, beh)
       ELSE st1

\* The frame is handed to handleMessage and is JSON
Decoded(frame) ==
    (frame.event = "" \/ frame.event \in eventTypes) /\ JSONparse(frame.data).ok

\* The behaviours enumerated are those of the callbacks the frame can reach;
\* the others are fixed to return
HandlerChoices(frame) ==
    IF options.onEvent /\ Decoded(frame) THEN HandlerBehaviours ELSE {"return"}

SubscriberChoices(frame) ==
    LET reached == IF Decoded(frame) /\ MapHas(listeners, frame.event)
                   THEN Range(listeners[frame.event]) ELSE {}
    IN IF reached = {} THEN {[s \in Subscribers |-> [kind |-> "return"]]}
       ELSE {beh \in [Subscribers -> SubscriberBehaviours] :
                \A s \in Subscribers \ reached : beh[s].kind = "return"}

\* A frame arrives on the open handle; the listeners attached to the handle
\* are onmessage, for frames without a type, and those of setupEventListeners
FrameArrives(frame, handler, beh) ==
    /\ eventSource # 0
    /\ sources[eventSource] = "open"
    /\ LET attached == frame.event = "" \/ frame.event \in eventTypes
           st == IF attached THEN handleMessage(Chan, frame, frame.event, handler, beh)
                 ELSE [c |-> Chan, log |-> <<>>, threw |-> FALSE]
       IN /\ Becomes(st.c)
          /\ ev' = [op |-> "frame", frame |-> frame, attached |-> attached,
                    log |-> st.log, threw |-> st.threw, calls |-> st.c.calls]
    /\ UNCHANGED errs
    /\ StreamUnchanged

StreamNext ==
    \/ Connect
    \/ Disconnect
    \/ OpenEvent
    \/ \E fatal \in BOOLEAN, onError \in {"return", "disconnect"} : ErrorEvent(fatal, onError)
    \/ \E t \in timers : TimerFires(t)
    \/ \E e \in SubscribedTypes, cb \in Subscribers : on(e, cb)
    \/ \E e \in SubscribedTypes, cb \in Subscribers : on_unsubscribe(e, cb)
    \/ \E e \in SubscribedTypes, rest \in SeqsUpTo(Subscribers, 1) : off(e, rest)
    \/ \E f \in Frames : \E h \in HandlerChoices(f), beh \in SubscriberChoices(f) :
          FrameArrives(f, h, beh)

StreamSpec == StreamInit /\ [][StreamNext]_vars

\* The retry loop: a channel with reconnection enabled, connected once by the
\* caller, none of whose connection attempts opens
RetryInit ==
    /\ StreamInit
    /\ options.reconnect

\* The one connect() of the caller
RetryConnect ==
    /\ Len(sources) = 0
    /\ Connect

RetryError ==
    \E fatal \in BOOLEAN, onError \in {"return", "disconnect"} : ErrorEvent(fatal, onError)

RetryTimer == \E t \in timers : TimerFiresWithin(t, MaxRetryConnects)

RetryNext ==
    \/ RetryConnect
    \/ RetryError
    \/ RetryTimer

\* Every connection attempt errors, and every timer set fires
RetrySpec ==
    /\ RetryInit
    /\ [][RetryNext]_vars
    /\ WF_vars(RetryError)
    /\ WF_vars(RetryTimer)


\* ------------------------------------------------------------ properties
\* The dispatch has passed every member: only Resolved can follow.
AtEnd == dActive /\ dCursor >= Len(updateCallbacks)

\* How often x occurs in s
Count(s, x) == Cardinality({i \in 1 .. Len(s) : s[i] = x})

\* s without the members outside S
Restrict(s, S) == SelectSeq(s, LAMBDA y : y \in S)

\* Subscribers registered when the dispatch began whose registration no
\* callback other than themselves has changed during it
Settled == Range(dStart) \ dForeign

\* C1: when a successful response has been applied, in every state up to the
\* resolution of its call, getSnapshot() is that response's snapshot as a whole
\* and getState() is exactly its state field: nothing of an earlier snapshot
\* survives.
C1_ReplacedWholesale ==
    /\ dActive =>
          /\ getSnapshot = dResponse.snapshot
          /\ getState = dResponse.snapshot.state
    /\ ev.op \in {"applied", "resolved"} =>
          /\ getSnapshot = ev.response.snapshot
          /\ getState = ev.response.snapshot.state

\* A second round trip has resolved with state {b} while a request sent when the
\* current state was {a, b} is still in flight: key a of the earlier snapshot
\* is gone.
C1_Witness ==
    /\ ev.op = "resolved"
    /\ getState = [b |-> 0]
    /\ \E r \in inflight : r.snapshot # Undefined /\ r.snapshot.state = [a |-> 1, b |-> 1]


\* A Transport failure: fetch rejected, or the response is not a success
TransportFailure(fetched) ==
    fetched = NetworkFailure \/ ("ok" \in DOMAIN fetched /\ ~fetched.ok)

\* C2: when an update round trip fails at the Transport (network failure or
\* non-success response), the triggering call rejects with that failure (the
\* fetch rejection, the response's error body, or HTTP_ERROR with the status
\* when the body cannot be parsed), the current snapshot stays the one current
\* just before, and no dispatch is started for that round trip: the
\* registry is untouched, no callback runs and the request is over.
C2_FailureLeavesSnapshot ==
    [][ (ev'.op = "rejected" /\ "fetched" \in DOMAIN ev' /\ TransportFailure(ev'.fetched)) =>
          /\ snapshot' = snapshot
          /\ updateCallbacks' = updateCallbacks
          /\ ~dActive' /\ dInvoked' = <<>>
          /\ \A r \in inflight' : r.id # ev'.req
          /\ IF ev'.fetched = NetworkFailure THEN ev'.error = NetworkFailure
             ELSE IF ev'.fetched.body # Unparseable THEN ev'.error = ev'.fetched.body
             ELSE /\ DOMAIN ev'.error = {"error", "message", "code"}
                  /\ ev'.error.error = "HTTP_ERROR"
                  /\ ev'.error.code = ev'.fetched.status ]_vars

\* A non-success response has been delivered while subscribers were registered
\* and another request is still in flight.
C2_Witness ==
    /\ ev.op = "rejected"
    /\ "fetched" \in DOMAIN ev
    /\ ev.fetched # NetworkFailure
    /\ ~ev.fetched.ok
    /\ Len(updateCallbacks) = 2
    /\ inflight # {}

\* C3 (as claimed): a round trip that rejects, also one that rejects because the
\* success response has no snapshot, leaves the current snapshot as it was, and
\* the current snapshot is well-formed in every reachable state.
C3_MalformedLeavesSnapshot ==
    [][ /\ ev'.op = "rejected" => snapshot' = snapshot
        /\ snapshot' \in Snapshots ]_vars

\* C4: when round trips overlap, the snapshot current once a second (or later)
\* successful response has been applied is the one that response carries,
\* the response that arrived last, whatever the order the requests were sent
\* in and whatever snapshot the request was sent with; every successful
\* response is adopted when it arrives.
C4_LastResponseWins ==
    (Len(adopted) >= 2 /\ ev.op \in {"applied", "resolved"}) =>
        /\ adopted[Len(adopted)].id = ev.req
        /\ getSnapshot = ev.response.snapshot
        /\ getSnapshot.checksum = adopted[Len(adopted)].checksum

\* The response to the request sent second arrived first, the response to the
\* request sent first arrived last with another snapshot, which is current.
C4_Witness ==
    /\ Len(adopted) = 2
    /\ adopted[1].id = 2 /\ adopted[2].id = 1
    /\ adopted[1].checksum # adopted[2].checksum
    /\ ev.op = "resolved"
    /\ getSnapshot.checksum = adopted[2].checksum


\* C5: on every successful update, each subscriber registered at that moment
\* is invoked exactly once, in registration order, with the state of the
\* response's snapshot and the effects of that same response, while that
\* snapshot is already current (getState() returns the notified state) and
\* before the call resolves.
C5_EachInvokedOnceInOrder ==
    [][ /\ ev'.op = "invoke" =>
              /\ dActive'
              /\ ev'.state = getState'
              /\ ev'.state = dResponse'.snapshot.state
              /\ ev'.effects = dResponse'.effects
        /\ ev'.op = "resolved" =>
              /\ AtEnd
              /\ ev'.req = dReq
              /\ \A s \in Range(dStart) : Count(dInvoked, s) = 1
              /\ Restrict(dInvoked, Range(dStart)) = dStart ]_vars

\* C5 for the subscribers whose registration no other callback changes while
\* the dispatch runs: these are invoked exactly once, in registration order,
\* with the state and effects of the response, after its snapshot became
\* current and before the call resolves.
C5_SettledInvokedOnceInOrder ==
    [][ /\ dActive' =>
              /\ dArgs'.state = dResponse'.snapshot.state
              /\ dArgs'.effects = dResponse'.effects
              /\ getState' = dArgs'.state
        /\ ev'.op = "invoke" =>
              /\ dActive'
              /\ ev'.state = getState'
              /\ ev'.state = dResponse'.snapshot.state
              /\ ev'.effects = dResponse'.effects
        /\ AtEnd' =>
              /\ \A s \in Settled' : Count(dInvoked', s) = 1
              /\ Restrict(dInvoked', Settled') = Restrict(dStart', Settled')
        /\ ev'.op = "resolved" => AtEnd /\ ev'.req = dReq ]_vars

\* The second update's dispatch has passed two subscribers, registered in the
\* order 2, 1, and invoked them in that order.
C5_Witness ==
    /\ AtEnd
    /\ Len(adopted) = 2
    /\ dStart = <<2, 1>>
    /\ dInvoked = <<2, 1>>
    /\ dForeign = {}

\* C6: if a subscriber throws during a dispatch, every subscriber registered
\* after it is still invoked in that dispatch, the new snapshot stays current
\* and the call resolves.
C6_ThrowBlocksNobody ==
    [][ /\ (ev'.op = "invoke" /\ ev'.threw) => dActive' /\ snapshot' = snapshot
        /\ (dActive /\ ~dActive') =>
              /\ ev'.op = "resolved"
              /\ ev'.req = dReq
              /\ snapshot' = dResponse.snapshot
              /\ \A x \in dThrew \cap Range(dStart), s \in Range(dStart) :
                    IndexOf(dStart, s) > IndexOf(dStart, x) => s \in Range(dInvoked) ]_vars

\* C6 for the subscribers whose registration no other callback changes while
\* the dispatch runs: a throw is caught at its own invocation, these
\* subscribers are still invoked when registered after the thrower, the new
\* snapshot stays current and the dispatch ends with the call resolved.
C6_ThrowIsCaught ==
    [][ /\ (ev'.op = "invoke" /\ ev'.threw) => dActive' /\ snapshot' = snapshot
        /\ (AtEnd' /\ dThrew' # {}) =>
              /\ getSnapshot' = dResponse'.snapshot
              /\ \A x \in dThrew' \cap Range(dStart'), s \in Settled' :
                    IndexOf(dStart', s) > IndexOf(dStart', x) => s \in Range(dInvoked')
        /\ (dActive /\ ~dActive') =>
              /\ ev'.op = "resolved"
              /\ ev'.req = dReq
              /\ snapshot' = dResponse.snapshot ]_vars

\* The first of two subscribers threw and the second was invoked all the same.
C6_Witness ==
    /\ AtEnd
    /\ Len(dStart) = 2
    /\ dStart[1] \in dThrew
    /\ dInvoked = dStart

\* C7: if a subscriber calls its own unsubscribe function while it is invoked,
\* every other subscriber registered when the dispatch began is invoked
\* exactly once in that dispatch, and a subscriber that removed itself is not
\* invoked again while its unsubscribe stands.
C7_SelfUnsubscribeSkipsNobody ==
    [][ /\ (AtEnd' /\ dSelf' # {}) =>
              \A s \in Range(dStart') \ dSelf' : Count(dInvoked', s) = 1
        /\ ev'.op = "invoke" => handle[ev'.cb] # "stale" ]_vars

\* C7 for the subscribers whose registration no other callback changes while
\* the dispatch runs: in a dispatch with self-unsubscribing callbacks these
\* are invoked exactly once, and no callback is invoked while its unsubscribe
\* stands.
C7_SelfUnsubscribe ==
    [][ /\ (AtEnd' /\ dSelf' # {}) =>
              \A s \in Settled' : Count(dInvoked', s) = 1
        /\ ev'.op = "invoke" => handle[ev'.cb] # "stale" ]_vars

\* The first of two subscribers unsubscribed itself while invoked and the
\* second was invoked after it.
C7_Witness ==
    /\ AtEnd
    /\ Len(dStart) = 2
    /\ dSelf = {dStart[1]}
    /\ dForeign = {}
    /\ dInvoked = dStart
    /\ updateCallbacks = <<dStart[2]>>

\* The callbacks whose unsubscribe function is called in a step, at the top
\* level or from inside a callback of the running dispatch
UnsubscribeCalled ==
    IF ev'.op = "unsubscribe" THEN {ev'.cb}
    ELSE IF ev'.op = "invoke" /\ ev'.did.kind = "unsubscribe" THEN {ev'.did.cb}
    ELSE {}

\* C8 as stated: a second or later call of the unsubscribe function returned
\* by onUpdate(cb) leaves the subscriber registry exactly as it was, in every
\* state, also when cb has been registered again since the earlier call.
C8_RepeatLeavesRegistry ==
    [][ \A c \in UnsubscribeCalled :
           handle[c] \in {"stale", "again"} => updateCallbacks' = updateCallbacks ]_vars

\* C8, amended: every call of the unsubscribe function of cb removes exactly
\* cb (the other subscribers stay, in their order), and a second or later
\* call leaves the registry exactly as it was unless cb has been registered
\* again since the previous call.
C8_RemovesExactlyCb ==
    [][ \A c \in UnsubscribeCalled :
           /\ updateCallbacks' = Restrict(updateCallbacks, Callbacks \ {c})
           /\ handle[c] = "stale" => updateCallbacks' = updateCallbacks ]_vars

\* The unsubscribe function of a callback has just been called a second time
\* while the other callback is registered.
C8_Witness ==
    /\ ev.op = "unsubscribe"
    /\ ev.was = "stale"
    /\ updateCallbacks = << CHOOSE c \in Callbacks : c # ev.cb >>

\* C9: call(), set() and batch() each issue exactly one Transport update; the
\* deltas of batch(ops) are as many as ops and in the order of ops, a 'call'
\* intent becoming a callMethod delta with its method and params (an empty
\* sequence when it has none), a 'set' intent a syncInput delta with its field
\* and value; call() and set() carry the one-element batch of their intent.
C9_OneOrderedBatch ==
    [][ "sent" \in DOMAIN ev' =>
          /\ updateCalls' = updateCalls + 1
          /\ Cardinality(inflight') = Cardinality(inflight) + 1
          /\ Len(ev'.sent) = 1
          /\ ev'.sent[1].snapshot = snapshot
          /\ LET u == ev'.sent[1].updates
                 a == ev'.args
                 IsDelta(d, op) ==
                     IF op.type = "call"
                     THEN /\ d.type = "callMethod"
                          /\ d.payload.method = op.method
                          /\ d.payload.params =
                               IF "params" \in DOMAIN op THEN op.params ELSE <<>>
                     ELSE /\ d.type = "syncInput"
                          /\ d.payload.field = op.field
                          /\ d.payload.value = op.value
             IN  CASE ev'.op = "batch" ->
                        /\ Len(u) = Len(a.operations)
                        /\ \A i \in 1 .. Len(u) : IsDelta(u[i], a.operations[i])
                   [] ev'.op = "call" ->
                        /\ Len(u) = 1
                        /\ IsDelta(u[1], [type |-> "call", method |-> a.method,
                                          params |-> a.params])
                   [] ev'.op = "set" ->
                        /\ Len(u) = 1
                        /\ IsDelta(u[1], [type |-> "set", field |-> a.field,
                                          value |-> a.value]) ]_vars

\* batch([set, call without params]) has just been sent as one update of two
\* deltas, the second with empty params.
C9_Witness ==
    /\ ev.op = "batch"
    /\ Len(ev.args.operations) = 2
    /\ ev.args.operations[1].type = "set"
    /\ ev.args.operations[2] = [type |-> "call", method |-> "validate"]
    /\ Len(ev.sent[1].updates) = 2
    /\ ev.sent[1].updates[2].payload.params = <<>>


\* C10: call(), set() and batch() of the adapter hook, invoked while no mount()
\* of the hook has succeeded, fail with the not-mounted error and issue no
\* Transport request.
C10_NotMountedBeforeMount ==
    [][ (ev'.op \in {"call", "set", "batch"} /\ mounted = 0) =>
           /\ ev'.outcome = NotMountedError
           /\ error' = NotMountedError
           /\ hookUpdateCalls' = hookUpdateCalls
           /\ hookInflight' = hookInflight
           /\ mountCalls' = mountCalls ]_vars


\* C11: LiveGoComponent.mount issues exactly one Transport mount call; when
\* the Transport call succeeds an instance is constructed whose snapshot is
\* the snapshot of the mount response; when it fails no instance is
\* constructed and the caller gets the error as the Transport gave it: the
\* rejection of fetch, or the structured payload of the error response.
C11_MountOnceAndBind ==
    [][ /\ ev'.op = "mount" =>
              /\ mountCalls' = mountCalls + 1
              /\ Cardinality(mounts') = Cardinality(mounts) + 1
              /\ instances' = Unlisten(instances, {unsubscribeRef})
        /\ ev'.op \in {"mounted", "mountFailed"} =>
              /\ mountCalls' = mountCalls
              /\ LET f == ev'.fetched IN
                 IF f # NetworkFailure /\ f.ok /\ f.body # Unparseable
                 THEN /\ Len(instances') = Len(instances) + 1
                      /\ instances'[Len(instances')].snapshot =
                            IF "snapshot" \in DOMAIN f.body THEN f.body.snapshot
                            ELSE Undefined
                      /\ livegoRef' = Len(instances')
                 ELSE /\ instances' = instances
                      /\ livegoRef' = livegoRef
                      /\ ev'.op = "mountFailed"
                      /\ f = NetworkFailure => ev'.error = NetworkFailure
                      /\ (f # NetworkFailure /\ ~f.ok /\ f.body # Unparseable) =>
                            ev'.error = f.body /\ error' = f.body ]_vars

\* A mount answered 422 with a structured payload has failed while the
\* instance of an earlier, successful mount exists.
C11_Witness ==
    /\ ev.op = "mountFailed"
    /\ ev.fetched # NetworkFailure
    /\ ev.fetched.body \in ErrorPayloads
    /\ error \in ErrorPayloads
    /\ Len(instances) = 1
    /\ instances[1].snapshot = MountSnapshot

\* C12: after any mount() of the hook has failed, also a remount after a
\* successful mount, no live snapshot is held: getSnapshot() and getId()
\* return undefined, and a call/set/batch that follows rejects as not mounted
\* without a Transport request.
C12_FailedMountHoldsNothing ==
    [][ /\ ev'.op = "mountFailed" =>
              /\ useLiveGo_getSnapshot' = Undefined
              /\ useLiveGo_getId' = Undefined
        /\ (ev.op = "mountFailed" /\ ev'.op \in {"call", "set", "batch"}) =>
              /\ ev'.outcome = NotMountedError
              /\ hookUpdateCalls' = hookUpdateCalls
              /\ hookInflight' = hookInflight ]_vars

\* C13: with reconnection enabled, the k-th consecutive connection error with
\* no open event in between schedules, for k = 1..5, exactly one reconnect, with
\* delay reconnectInterval * 2^(k-1); the 6th schedules none and leaves the
\* channel Disconnected: no handle and no pending reconnect timer.
C13_KthErrorSchedulesOnce ==
    [][ (ev'.op = "error" /\ options.reconnect) =>
           LET k == ev'.consecutive IN
           /\ k \in 1 .. maxReconnectAttempts =>
                 /\ ev'.delays = << reconnectInterval * pow2(k - 1) >>
                 /\ timerSeq' = timerSeq + 1
                 /\ timers' \ timers = {timerSeq'}
           /\ k = maxReconnectAttempts + 1 =>
                 /\ ev'.delays = <<>>
                 /\ timerSeq' = timerSeq
                 /\ eventSource' = 0
                 /\ reconnectTimeout' = 0
                 /\ timers' = {} ]_vars

\* C13, the scheduling alone: the k-th consecutive error schedules one
\* reconnect with the doubled delay for k = 1..5 and none for k = 6, where the
\* handle is dropped.
C13_KthErrorDelay ==
    [][ (ev'.op = "error" /\ options.reconnect) =>
           LET k == ev'.consecutive IN
           /\ k \in 1 .. maxReconnectAttempts =>
                 /\ ev'.delays = << reconnectInterval * pow2(k - 1) >>
                 /\ timerSeq' = timerSeq + 1
                 /\ timers' \ timers = {timerSeq'}
           /\ k = maxReconnectAttempts + 1 =>
                 /\ ev'.delays = <<>>
                 /\ timerSeq' = timerSeq
                 /\ eventSource' = 0
                 /\ reconnectTimeout' = 0 ]_vars

C13_Witness ==
    /\ ev.op = "error"
    /\ options.reconnect
    /\ ev.consecutive = maxReconnectAttempts + 1
    /\ ev.delays = <<>>
    /\ eventSource = 0

\* The last operation ran a disconnect() called by the caller: from the top
\* level, from the error callback, from the global handler or from a subscriber
ExplicitDisconnect ==
    \/ ev.op = "disconnect"
    \/ ev.op = "error" /\ ev.onError = "disconnect"
    \/ ev.op = "frame" /\ \E i \in 1 .. Len(ev.log) : ev.log[i].did = "disconnect"

\* C14: once an explicit disconnect() has returned, no reconnect timer is
\* pending and no connection is opened until the caller calls connect(),
\* whatever number of error events fired on the handle before and whichever
\* callback disconnect() was called from: the operation that called it ends
\* with no handle and no pending timer, and a channel with no handle and no
\* pending timer stays so through every step but connect().
C14_DisconnectStopsReconnect ==
    [][ /\ ExplicitDisconnect' => (eventSource' = 0 /\ timers' = {})
        /\ (eventSource = 0 /\ timers = {} /\ ev'.op # "connect")
              => (eventSource' = 0 /\ timers' = {} /\ sources' = sources) ]_vars

\* C15: disconnect() closes and drops the handle, empties the whole per-type
\* registry, and invokes the disconnect callback exactly once if a handle
\* existed and not at all otherwise, so not on a second consecutive disconnect().
C15_DisconnectTearsDown ==
    [][ /\ ev'.op = "disconnect" =>
              /\ eventSource' = 0
              /\ \A i \in 1 .. Len(sources') : sources'[i] = "closed"
              /\ listeners' = EmptyMap
              /\ ev'.calls = IF eventSource # 0 THEN <<"onDisconnect">> ELSE <<>>
        /\ (ev.op = "disconnect" /\ ev'.op = "disconnect") => ev'.calls = <<>> ]_vars

C15_Witness ==
    /\ ev.op = "disconnect"
    /\ ev.had
    /\ ev.calls = <<"onDisconnect">>
    /\ ev.types = SubscribedTypes
    /\ listeners = EmptyMap
    /\ sources = <<"closed", "closed">>

\* C16: a disconnect() followed by a connect() yields, from any reachable
\* state, a fresh handle in Connecting, a reconnect-attempt counter of 0 and an
\* empty registry.
C16_ReconnectIsFresh ==
    [][ (ev.op = "disconnect" /\ ev'.op = "connect") =>
           /\ eventSource' = Len(sources) + 1
           /\ Len(sources') = Len(sources) + 1
           /\ sources'[eventSource'] = "connecting"
           /\ reconnectAttempts' = 0
           /\ listeners' = EmptyMap ]_vars

\* C17: a frame whose data is not valid JSON is dropped: the failure is caught,
\* neither a lifecycle callback nor the global handler nor a subscriber is
\* invoked, and the attempt counter, the timers, the handle and the registry
\* are left as they were.
C17_InvalidJsonDropped ==
    [][ (ev'.op = "frame" /\ ev'.frame.data = NotJson) =>
           /\ ev'.log = <<>>
           /\ ev'.calls = <<>>
           /\ ev'.attached => ev'.threw
           /\ UNCHANGED chanVars ]_vars

C17_Witness ==
    /\ ev.op = "frame"
    /\ ev.frame.data = NotJson
    /\ ev.frame.event = "progress"
    /\ ev.threw
    /\ ev.log = <<>>
    /\ options.onEvent
    /\ MapHas(listeners, "progress")
    /\ Len(listeners["progress"]) = NumSubscribers
    /\ timers # {}

\* The event type a frame is dispatched under
FrameType(frame) == IF frame.event # "" THEN frame.event ELSE "message"

\* The StreamEvent built from a decoded frame
StreamEventOf(frame) ==
    [event |-> FrameType(frame), data |-> JSONparse(frame.data).value,
     id |-> frame.lastEventId]

\* The subscribers of the frame's type when the frame arrives
SubscribersOf(frame) ==
    IF MapHas(listeners, FrameType(frame)) THEN listeners[FrameType(frame)] ELSE <<>>

\* Who was invoked with what, in order
Invocations(log) ==
    [i \in 1 .. Len(log) |-> [fn |-> log[i].fn, cb |-> log[i].cb, arg |-> log[i].arg]]

\* The invocations a decoded frame is due: the global handler, if one is
\* registered, with the StreamEvent, then the subscribers of the type with the
\* data, in the order of their registration
Due(frame) ==
    (IF options.onEvent
     THEN << [fn |-> "onEvent", cb |-> 0, arg |-> StreamEventOf(frame)] >>
     ELSE <<>>)
    \o [i \in 1 .. Len(SubscribersOf(frame)) |->
          [fn |-> "subscriber", cb |-> SubscribersOf(frame)[i],
           arg |-> StreamEventOf(frame).data]]

\* C18: for every decoded frame the global handler, if registered, is invoked
\* exactly once with the full StreamEvent before any subscriber; then every
\* subscriber of the frame's type is invoked exactly once with the data, in
\* registration order; subscribers of other types are not invoked; with no
\* handler and no subscriber nothing is invoked and no state changes. Stated
\* for the frames during whose dispatch no callback invoked has itself changed
\* the registry or closed the channel.
C18_EachInvokedOnceInOrder ==
    [][ (/\ ev'.op = "frame"
         /\ Decoded(ev'.frame)
         /\ \A i \in 1 .. Len(ev'.log) : ev'.log[i].did \in {"return", "throw"}) =>
           /\ Invocations(ev'.log) = Due(ev'.frame)
           /\ Due(ev'.frame) = <<>> => (~ev'.threw /\ UNCHANGED chanVars) ]_vars

\* C18 for the frames during whose dispatch every callback invoked returns
\* without calling the channel.
C18_PlainDispatchInOrder ==
    [][ (/\ ev'.op = "frame"
         /\ Decoded(ev'.frame)
         /\ \A i \in 1 .. Len(ev'.log) : ev'.log[i].did = "return") =>
           /\ Invocations(ev'.log) = Due(ev'.frame)
           /\ ~ev'.threw
           /\ UNCHANGED chanVars ]_vars

C18_Witness ==
    /\ ev.op = "frame"
    /\ ev.frame.event = "progress"
    /\ options.onEvent
    /\ Len(ev.log) = 1 + NumSubscribers
    /\ ev.log[1].fn = "onEvent"
    /\ \A i \in 1 .. Len(ev.log) : ev.log[i].did = "return"
    /\ MapHas(listeners, "custom")
    /\ Len(listeners["custom"]) > 0

\* C19: in the dispatch of a frame a throwing global handler or subscriber is
\* caught at its own invocation: the exception does not escape, and every
\* other subscriber of the frame's type is still invoked.
C19_ThrowIsContained ==
    [][ (/\ ev'.op = "frame"
         /\ Decoded(ev'.frame)
         /\ \E i \in 1 .. Len(ev'.log) : ev'.log[i].did = "throw") =>
           \A s \in Range(SubscribersOf(ev'.frame)) :
              \E i \in 1 .. Len(ev'.log) :
                 ev'.log[i].fn = "subscriber" /\ ev'.log[i].cb = s ]_vars

\* The handles that have not been closed by close() or by the browser
Unclosed == {i \in 1 .. Len(sources) : sources[i] # "closed"}

\* C20: connect() while a handle exists, be it Connecting, Open or waiting for
\* a scheduled reconnect, does nothing, and at most one channel handle exists
\* at any time.
C20_ConnectIsIdempotent ==
    [][ /\ (ev'.op = "connect" /\ eventSource # 0) => UNCHANGED chanVars
        /\ Cardinality(Unclosed') <= 1
        /\ Unclosed' \subseteq {eventSource'} ]_vars

C20_Witness ==
    /\ ev.op = "connect"
    /\ ev.had
    /\ eventSource # 0
    /\ sources[eventSource] = "connecting"
    /\ timers # {}

\* C21: each open event of the channel resets the reconnect-attempt counter to
\* 0 and invokes the connect callback exactly once, so the first connection
\* error after any open schedules its reconnect with the base delay again.
C21_OpenResetsAttempts ==
    [][ /\ ev'.op = "open" =>
              /\ reconnectAttempts' = 0
              /\ ev'.calls = <<"onConnect">>
        /\ (ev'.op = "error" /\ ev'.consecutive = 1 /\ options.reconnect) =>
              /\ ev'.delays = <<reconnectInterval>>
              /\ reconnectAttempts' = 1 ]_vars

C21_Witness ==
    /\ ev.op = "error"
    /\ ev.consecutive = 1
    /\ ev.delays = <<reconnectInterval>>
    /\ timerSeq >= 3
    /\ sources[Len(sources)] # "closed"

\* The last operation was an error event that closed the channel: the retry
\* budget was exhausted or reconnection is disabled
ClosedOnError == ev.op = "error" /\ ev.delays = <<>>

\* C22: once the channel has closed on an error because the retry budget is
\* exhausted or reconnection is disabled, it is Disconnected and stays so: no
\* handle is created and no reconnect fires until the caller calls connect().
\* The error leaves no handle and no pending timer, and a channel with no
\* handle and no pending timer gets neither by any step but connect().
C22_ExhaustedStaysDisconnected ==
    [][ /\ ClosedOnError' => (eventSource' = 0 /\ timers' = {})
        /\ (eventSource = 0 /\ timers = {} /\ ev'.op # "connect")
              => (eventSource' = 0 /\ timers' = {} /\ Len(sources') = Len(sources)
                  /\ ev'.op # "timer") ]_vars

\* C22 for the channels with reconnection disabled
C22_DisabledStaysDisconnected ==
    [][ /\ (ClosedOnError' /\ ~options.reconnect) => (eventSource' = 0 /\ timers' = {})
        /\ (eventSource = 0 /\ timers = {} /\ ev'.op # "connect")
              => (eventSource' = 0 /\ timers' = {} /\ Len(sources') = Len(sources)
                  /\ ev'.op # "timer") ]_vars

C22_Witness ==
    /\ ClosedOnError
    /\ ~options.reconnect
    /\ eventSource = 0
    /\ sources = <<"closed", "closed">>

\* The subscribers of an event type in a registry, in registration order
SubscribersIn(m, event) == IF MapHas(m, event) THEN m[event] ELSE <<>>

\* The registry entries of the types other than event are as they were
OthersUntouched(event) ==
    \A x \in SubscribedTypes \ {event} :
       /\ MapHas(listeners', x) <=> MapHas(listeners, x)
       /\ SubscribersIn(listeners', x) = SubscribersIn(listeners, x)

\* C23: the unsubscribe returned by on(type, cb) removes exactly cb from the
\* subscribers of type and removes the type's registry entry when cb was the
\* last subscriber; off(type, cb) removes only cb from type; off(type) removes
\* every callback of the type; in all three cases the subscribers of the other
\* event types are left untouched.
C23_RemovalsAreExact ==
    [][ /\ ev'.op = "on_unsubscribe" =>
              LET before == SubscribersIn(listeners, ev'.event) IN
              /\ SubscribersIn(listeners', ev'.event) =
                    Restrict(before, Range(before) \ {ev'.cb})
              /\ before = <<ev'.cb>> => ~MapHas(listeners', ev'.event)
              /\ OthersUntouched(ev'.event)
        /\ (ev'.op = "off" /\ Len(ev'.rest) > 0) =>
              LET before == SubscribersIn(listeners, ev'.event) IN
              /\ SubscribersIn(listeners', ev'.event) =
                    Restrict(before, Range(before) \ {ev'.rest[1]})
              /\ OthersUntouched(ev'.event)
        /\ (ev'.op = "off" /\ Len(ev'.rest) = 0) =>
              /\ SubscribersIn(listeners', ev'.event) = <<>>
              /\ OthersUntouched(ev'.event) ]_vars

C23_Witness ==
    /\ ev.op = "off"
    /\ ev.rest = <<>>
    /\ ev.event = "progress"
    /\ ~MapHas(listeners, "progress")
    /\ MapHas(listeners, "custom")
    /\ Len(listeners["custom"]) = NumSubscribers

\* C24: the hook's isLoading flag is true in every state where a mount request
\* or an update request (call / set / batch) issued through the hook is in
\* flight, and false when none is.
C24_LoadingMeansInFlight ==
    isLoading <=> (mounts # {} \/ hookInflight # {})

\* C25: each Engine dispatch iterates over a stable snapshot of the subscriber
\* registry: the set of subscribers one dispatch invokes is exactly the set
\* registered when the dispatch began; a callback added during the dispatch
\* is not invoked in it, and a callback removed during the dispatch by another
\* subscriber or by clearListeners is still invoked in it.
C25_StableSnapshotDispatch ==
    [][ /\ (dActive /\ ~dActive') => Range(dInvoked) = Range(dStart)
        /\ ev'.op = "invoke" => ev'.cb \in Range(dStart) ]_vars

\* The last operation issued an update request
Issued == ev.op \in {"call", "set", "batch"}

\* C26: every update request carries the snapshot that was current when the
\* request was issued: two overlapping requests issued with no response
\* applied in between carry the same base snapshot, and a request issued
\* after a response has been applied carries that response's snapshot.
C26_RequestCarriesCurrent ==
    [][ Issued' =>
           /\ ev'.sent[1].snapshot = getSnapshot
           /\ \E r \in inflight' \ inflight :
                 r.id = ev'.sent[1].id /\ r.snapshot = getSnapshot
           /\ Issued => ev'.sent[1].snapshot = ev.sent[1].snapshot
           /\ ev.op = "resolved" => ev'.sent[1].snapshot = ev.response.snapshot ]_vars

C26_Witness ==
    /\ Issued
    /\ Len(adopted) = 1
    /\ ev.sent[1].snapshot # MountSnapshot
    /\ ev.sent[1].snapshot # Undefined
    /\ ev.sent[1].snapshot.checksum = adopted[1].checksum

\* C27: at most one reconnect timer is pending at any time: a connection error
\* that schedules a reconnect never leaves an earlier scheduled reconnect
\* armed, even when several error events fire on the same handle before the
\* first timer fires.
C27_AtMostOneTimer == Cardinality(timers) <= 1

\* C28: when a scheduled reconnect fires, the teardown empties the whole
\* per-type registry before the channel is reopened, so the callbacks
\* registered with on() before the connection error are not invoked for the
\* frames of the reopened connection unless they are registered again: the
\* timer leaves an empty registry and a new handle, and a frame invokes only
\* subscribers the registry holds for its type when it arrives.
C28_ReconnectDropsSubscribers ==
    [][ /\ ev'.op = "timer" =>
              /\ listeners' = EmptyMap
              /\ eventSource' = Len(sources')
              /\ Len(sources') = Len(sources) + 1
              /\ sources'[eventSource'] = "connecting"
        /\ ev'.op = "frame" =>
              \A i \in 1 .. Len(ev'.log) :
                 ev'.log[i].fn = "subscriber" =>
                    ev'.log[i].cb \in Range(SubscribersIn(listeners, FrameType(ev'.frame))) ]_vars

C28_Witness ==
    /\ ev.op = "timer"
    /\ ev.types = SubscribedTypes
    /\ listeners = EmptyMap
    /\ eventSource = 2
    /\ sources = <<"closed", "connecting">>

\* C29: in every reachable state the reconnect-attempt counter is between 0
\* and maxReconnectAttempts; it changes only by +1 on a connection error that
\* schedules a reconnect and by a reset to 0 on open, while connect(),
\* disconnect(), on(), off() and the handling of frames leave it unchanged.
C29_AttemptsBounded ==
    [][ /\ reconnectAttempts \in 0 .. maxReconnectAttempts
        /\ reconnectAttempts' \in 0 .. maxReconnectAttempts
        /\ reconnectAttempts' # reconnectAttempts =>
              \/ /\ ev'.op = "error"
                 /\ Len(ev'.delays) = 1
                 /\ reconnectAttempts' = reconnectAttempts + 1
              \/ /\ ev'.op = "open"
                 /\ reconnectAttempts' = 0
        /\ ev'.op \in {"connect", "disconnect", "on", "on_unsubscribe", "off", "frame",
                       "timer"} => reconnectAttempts' = reconnectAttempts
        /\ (ev'.op = "error" /\ Len(ev'.delays) = 1) =>
              reconnectAttempts' = reconnectAttempts + 1 ]_vars

C29_Witness ==
    /\ ev.op = "disconnect"
    /\ ev.had
    /\ reconnectAttempts = maxReconnectAttempts

\* C30: only the frames without a type, dispatched as 'message', and the
\* frames named with one of the six built-in types reach the dispatch: for a
\* frame of any other event type neither the global handler nor a subscriber
\* registered with on() for that type is invoked.
C30_OnlyBuiltinTypesDispatched ==
    [][ ev'.op = "frame" =>
           LET dispatched == {"message", "connected", "text-chunk", "progress",
                              "notification", "generation-complete", "upload-complete"}
           IN /\ FrameType(ev'.frame) \notin dispatched =>
                    /\ ev'.log = <<>>
                    /\ ~ev'.threw
                    /\ UNCHANGED chanVars
              /\ ev'.log # <<>> => FrameType(ev'.frame) \in dispatched ]_vars

C30_Witness ==
    /\ ev.op = "frame"
    /\ ev.frame.event = "custom"
    /\ ev.frame.data # NotJson
    /\ ev.log = <<>>
    /\ options.onEvent
    /\ MapHas(listeners, "custom")
    /\ Len(listeners["custom"]) = NumSubscribers

\* C31: with reconnection enabled, if every connection attempt errors before
\* it opens and every scheduled timer eventually fires, the channel
\* eventually reaches a state with no handle and no pending reconnect timer,
\* after scheduling at most maxReconnectAttempts reconnects in total: the
\* retry loop terminates.
C31_RetryLoopTerminates ==
    /\ [](timerSeq <= maxReconnectAttempts)
    /\ (eventSource # 0) ~> (eventSource = 0 /\ timers = {})
    /\ <>[](eventSource = 0 /\ timers = {})

C31_Witness ==
    /\ Len(sources) = 1 + maxReconnectAttempts
    /\ timerSeq = maxReconnectAttempts
    /\ ev.op = "error"
    /\ ev.consecutive = 1 + maxReconnectAttempts
    /\ eventSource = 0
    /\ timers = {}

====
